---- MODULE Spec2Model ----
(***************************************************************************)
(* Clock/reset sequencer (_CRG) and build script (main) of the two         *)
(* Crosslink-NX targets, litex_boards/targets/crosslink_nx_eval.py and     *)
(* litex_boards/targets/crosslink_nx_evn.py.                               *)
(*                                                                         *)
(* Hardware is modelled at the level of clock edges and input changes:     *)
(* one step is one por clock edge, one sys clock edge, one change of the   *)
(* PLL lock output or one change of the gsrn pad.  A register takes its    *)
(* next value from the values before the edge; combinational signals       *)
(* (por_done, the reset requests) are recomputed in the same step; an      *)
(* AsyncResetSynchronizer is two flip-flops with an asynchronous preset.   *)
(***************************************************************************)
EXTENDS Integers, Sequences, FiniteSets, TLC

VARIABLES
  crg,            \* the _CRG of crosslink_nx_eval.py
  crg_evn,        \* the _CRG of crosslink_nx_evn.py
  locked,         \* sys_pll.locked
  rst_n,          \* the gsrn pad (active low)
  edges,          \* history: por clock edges since power-up
  since_release,  \* history: por clock edges since gsrn was last low
  edge_in_reset,  \* history: a por edge found the por reset high since
                  \* gsrn last fell (or since power-up)
  argv,           \* the command line main() is run with
  pc,             \* position of main()
  args,           \* the namespace parse_args() returned
  soc,            \* the BaseSoC main() constructed
  builder,        \* the Builder: not made, or build() has returned
  bitfile,        \* the file <gateware_dir>/<build_name>.bit
  prog,           \* the programmer create_programmer() returned
  loaded          \* the load_bitstream() call made

hist_vars == <<edges, since_release, edge_in_reset>>
main_vars == <<argv, pc, args, soc, builder, bitfile, prog, loaded>>
vars      == <<crg, crg_evn, locked, rst_n, edges, since_release,
               edge_in_reset, argv, pc, args, soc, builder, bitfile, prog,
               loaded>>

(***************************************************************************)
(* Bounds.  The source's por_count is Signal(16, reset=2**16-1); the model *)
(* keeps the counter's shape (PorBits wide, reset value all ones) at a     *)
(* width TLC can enumerate, and every statement about "65535" is made      *)
(* about PorCountReset = 2^PorBits - 1.                                    *)
(***************************************************************************)
PorBits == 7

PorCountMod   == 2 ^ PorBits
PorCountReset == 2 ^ PorBits - 1

DefaultSysClkFreq == 75000000

NanosPerSecond == 1000000000

\* The system clock frequencies a _CRG is constructed with.
SysClkFreqs == {DefaultSysClkFreq, 50000000, 74999999}

(***************************************************************************)
(* Exact arithmetic: a period is the fraction num/den in lowest terms.     *)
(***************************************************************************)
RECURSIVE GCD(_, _)
GCD(a, b) == IF b = 0 THEN a ELSE GCD(b, a % b)

Fraction(n, d) == <<n \div GCD(n, d), d \div GCD(n, d)>>

(***************************************************************************)
(* migen.genlib.resetsync.AsyncResetSynchronizer(cd, async_reset): two     *)
(* flip-flops clocked by cd.clk, D of the first tied to 0, the second      *)
(* driving cd.rst, both preset asynchronously by async_reset.              *)
(***************************************************************************)
\* A clock edge of cd.clk.
SyncEdge(rst1, rst, async_reset) ==
  IF async_reset THEN <<TRUE, TRUE>> ELSE <<FALSE, rst1>>

\* No clock edge: only the asynchronous preset acts.
SyncHold(rst1, rst, async_reset) ==
  IF async_reset THEN <<TRUE, TRUE>> ELSE <<rst1, rst>>

(***************************************************************************)
(* _CRG of crosslink_nx_eval.py                                            *)
(***************************************************************************)
\* A faulty por_done: done one count early.
por_done_early(c) == c.por_count <= 1

\* self.comb += por_done.eq(por_count == 0)
por_done(c) == c.por_count = 0

\* A faulty por_count_next: the decrement is not guarded by ~por_done.
por_count_next_wrap(c) ==
  IF c.por_rst THEN PorCountReset ELSE (c.por_count - 1) % PorCountMod

\* A faulty por_count_next: the por domain is reset-less.
por_count_next_noreset(c) ==
  IF c.por_count # 0 THEN (c.por_count - 1) % PorCountMod ELSE c.por_count

\* A faulty por_count_next: the guard is inverted.
por_count_next_stuck(c) ==
  IF c.por_rst THEN PorCountReset
  ELSE IF c.por_count = 0 THEN (c.por_count - 1) % PorCountMod
  ELSE c.por_count

\* self.sync.por += If(~por_done, por_count.eq(por_count - 1)), in a clock
\* domain with a reset: the register reloads its reset value on an edge
\* taken while cd_por.rst is high.
por_count_next(c) ==
  IF c.por_rst THEN PorCountReset
  ELSE IF ~por_done(c) THEN (c.por_count - 1) % PorCountMod
  ELSE c.por_count

\* AsyncResetSynchronizer(self.cd_por, ~self.rst_n)
por_async_reset(r) == ~r

\* A faulty sys_async_reset: & in place of |.
sys_async_reset_and(c, l) == ~l /\ c.por_count # 0

\* AsyncResetSynchronizer(self.cd_sys, ~self.sys_pll.locked | ~por_done)
sys_async_reset(c, l) == ~l \/ ~por_done(c)

\* platform.add_period_constraint(self.cd_sys.clk, 1e9/sys_clk_freq)
period_constraint(sys_clk_freq) == Fraction(NanosPerSecond, sys_clk_freq)

\* The asynchronous presets applied to a sequencer whose registers or
\* inputs have just changed.
Settle(c, l, r) ==
  LET p == SyncHold(c.por_rst1, c.por_rst, por_async_reset(r))
      s == SyncHold(c.sys_rst1, c.sys_rst, sys_async_reset(c, l))
  IN  [c EXCEPT !.por_rst1 = p[1], !.por_rst = p[2],
                !.sys_rst1 = s[1], !.sys_rst = s[2]]

\* _CRG.__init__: the sequencer at power-up.  The synchronizer flip-flops
\* have no initial value in the source: p1, p are what the por pair powers
\* up with (the presets then act).
CRG(sys_clk_freq, p1, p, l, r) ==
  Settle([por_count    |-> PorCountReset,
          por_rst1     |-> p1,
          por_rst      |-> p,
          sys_rst1     |-> TRUE,
          sys_rst      |-> TRUE,
          sys_clk_freq |-> sys_clk_freq,
          period       |-> period_constraint(sys_clk_freq)], l, r)

\* One edge of cd_por.clk.
PorEdge(c, l, r) ==
  LET p == SyncEdge(c.por_rst1, c.por_rst, por_async_reset(r))
  IN  Settle([c EXCEPT !.por_count = por_count_next(c),
                       !.por_rst1 = p[1], !.por_rst = p[2]], l, r)

\* One edge of cd_sys.clk.
SysEdge(c, l, r) ==
  LET s == SyncEdge(c.sys_rst1, c.sys_rst, sys_async_reset(c, l))
  IN  Settle([c EXCEPT !.sys_rst1 = s[1], !.sys_rst = s[2]], l, r)

(***************************************************************************)
(* _CRG of crosslink_nx_evn.py, translated from that file on its own.      *)
(***************************************************************************)
\* self.comb += por_done.eq(por_count == 0)
evn_por_done(c) == c.por_count = 0

\* self.sync.por += If(~por_done, por_count.eq(por_count - 1))
evn_por_count_next(c) ==
  IF c.por_rst THEN PorCountReset
  ELSE IF ~evn_por_done(c) THEN (c.por_count - 1) % PorCountMod
  ELSE c.por_count

\* AsyncResetSynchronizer(self.cd_por, ~self.rst_n)
evn_por_async_reset(r) == ~r

\* A faulty evn_sys_async_reset: the lock is left out.
evn_sys_async_reset_nolock(c, l) == c.por_count # 0

\* AsyncResetSynchronizer(self.cd_sys, ~self.sys_pll.locked | ~por_done)
evn_sys_async_reset(c, l) == ~l \/ ~evn_por_done(c)

\* platform.add_period_constraint(self.cd_sys.clk, 1e9/sys_clk_freq)
evn_period_constraint(sys_clk_freq) == Fraction(NanosPerSecond, sys_clk_freq)

EvnSettle(c, l, r) ==
  LET p == SyncHold(c.por_rst1, c.por_rst, evn_por_async_reset(r))
      s == SyncHold(c.sys_rst1, c.sys_rst, evn_sys_async_reset(c, l))
  IN  [c EXCEPT !.por_rst1 = p[1], !.por_rst = p[2],
                !.sys_rst1 = s[1], !.sys_rst = s[2]]

EvnCRG(sys_clk_freq, p1, p, l, r) ==
  EvnSettle([por_count    |-> PorCountReset,
             por_rst1     |-> p1,
             por_rst      |-> p,
             sys_rst1     |-> TRUE,
             sys_rst      |-> TRUE,
             sys_clk_freq |-> sys_clk_freq,
             period       |-> evn_period_constraint(sys_clk_freq)], l, r)

EvnPorEdge(c, l, r) ==
  LET p == SyncEdge(c.por_rst1, c.por_rst, evn_por_async_reset(r))
  IN  EvnSettle([c EXCEPT !.por_count = evn_por_count_next(c),
                          !.por_rst1 = p[1], !.por_rst = p[2]], l, r)

EvnSysEdge(c, l, r) ==
  LET s == SyncEdge(c.sys_rst1, c.sys_rst, evn_sys_async_reset(c, l))
  IN  EvnSettle([c EXCEPT !.sys_rst1 = s[1], !.sys_rst = s[2]], l, r)

(***************************************************************************)
(* Values of the variables a specification does not move.                  *)
(***************************************************************************)
NoFlag  == "<absent>"
Nothing == "<none>"

IdleMain ==
  /\ argv = Nothing /\ pc = "idle" /\ args = Nothing /\ soc = Nothing
  /\ builder = Nothing /\ bitfile = Nothing /\ prog = Nothing
  /\ loaded = Nothing

IdleHistory == edges = 0 /\ since_release = 0 /\ edge_in_reset = FALSE

\* A history counter stops at the counter's reset value: no statement
\* distinguishes larger values.
Count(n) == IF n < PorCountReset THEN n + 1 ELSE n

(***************************************************************************)
(* The sequencer of crosslink_nx_eval.py under its environment: the        *)
(* free-running oscillator, the PLL and the gsrn pad.                      *)
(***************************************************************************)
CrgInit ==
  /\ locked \in BOOLEAN
  /\ rst_n \in BOOLEAN
  /\ crg \in {CRG(f, p1, p, locked, rst_n) :
                f \in SysClkFreqs, p1 \in BOOLEAN, p \in BOOLEAN}

CrgPorClk  == crg' = PorEdge(crg, locked, rst_n) /\ UNCHANGED <<locked, rst_n>>

CrgSysClk  == crg' = SysEdge(crg, locked, rst_n) /\ UNCHANGED <<locked, rst_n>>

CrgLock    ==
  /\ locked' = ~locked
  /\ crg' = Settle(crg, locked', rst_n)
  /\ UNCHANGED rst_n

CrgRstn    ==
  /\ rst_n' = ~rst_n
  /\ crg' = Settle(crg, locked, rst_n')
  /\ UNCHANGED locked

(***************************************************************************)
(* Spec: the sequencer with its history variables.                         *)
(***************************************************************************)
Init == CrgInit /\ IdleHistory /\ crg_evn = Nothing /\ IdleMain

PorClk ==
  /\ CrgPorClk
  /\ edges' = Count(edges)
  /\ since_release' = IF rst_n THEN Count(since_release) ELSE 0
  /\ edge_in_reset' = (edge_in_reset \/ crg.por_rst)
  /\ UNCHANGED <<crg_evn, main_vars>>

SysClk == CrgSysClk /\ UNCHANGED <<hist_vars, crg_evn, main_vars>>

LockChange == CrgLock /\ UNCHANGED <<hist_vars, crg_evn, main_vars>>

RstnChange ==
  /\ CrgRstn
  /\ since_release' = IF rst_n' THEN since_release ELSE 0
  /\ edge_in_reset' = IF rst_n' THEN edge_in_reset ELSE FALSE
  /\ UNCHANGED <<edges, crg_evn, main_vars>>

Next == PorClk \/ SysClk \/ LockChange \/ RstnChange

Spec == Init /\ [][Next]_vars

(***************************************************************************)
(* SpecLive: the sequencer without history, with the clocks running: the   *)
(* oscillator never stops, and the PLL output runs while the PLL is        *)
(* locked.                                                                 *)
(***************************************************************************)
LivePorClk == CrgPorClk /\ UNCHANGED <<hist_vars, crg_evn, main_vars>>

LiveSysClk == CrgSysClk /\ UNCHANGED <<hist_vars, crg_evn, main_vars>>

LiveLock   == CrgLock /\ UNCHANGED <<hist_vars, crg_evn, main_vars>>

LiveRstn   == CrgRstn /\ UNCHANGED <<hist_vars, crg_evn, main_vars>>

LiveNext == LivePorClk \/ LiveSysClk \/ LiveLock \/ LiveRstn

SpecLive ==
  /\ Init /\ [][LiveNext]_vars
  /\ WF_vars(LivePorClk)
  /\ WF_vars(locked /\ LiveSysClk)

(***************************************************************************)
(* SpecEquiv: the sequencers of the two files, powered up alike and driven *)
(* by the same clock edges and inputs.                                     *)
(***************************************************************************)
EquivInit ==
  /\ locked \in BOOLEAN
  /\ rst_n \in BOOLEAN
  /\ \E f \in SysClkFreqs, p1 \in BOOLEAN, p \in BOOLEAN :
       /\ crg = CRG(f, p1, p, locked, rst_n)
       /\ crg_evn = EvnCRG(f, p1, p, locked, rst_n)
  /\ IdleHistory /\ IdleMain

EquivPorClk ==
  /\ CrgPorClk
  /\ crg_evn' = EvnPorEdge(crg_evn, locked, rst_n)
  /\ UNCHANGED <<hist_vars, main_vars>>

EquivSysClk ==
  /\ CrgSysClk
  /\ crg_evn' = EvnSysEdge(crg_evn, locked, rst_n)
  /\ UNCHANGED <<hist_vars, main_vars>>

EquivLock ==
  /\ CrgLock
  /\ crg_evn' = EvnSettle(crg_evn, locked', rst_n)
  /\ UNCHANGED <<hist_vars, main_vars>>

EquivRstn ==
  /\ CrgRstn
  /\ crg_evn' = EvnSettle(crg_evn, locked, rst_n')
  /\ UNCHANGED <<hist_vars, main_vars>>

EquivNext == EquivPorClk \/ EquivSysClk \/ EquivLock \/ EquivRstn

SpecEquiv == EquivInit /\ [][EquivNext]_vars

(***************************************************************************)
(* main() of crosslink_nx_eval.py.                                         *)
(*                                                                         *)
(* A value given on the command line is a record: whether the flag was     *)
(* given, whether its text is a number, and the number in half hertz (so   *)
(* that a fractional request such as 74999999.5 can be told from its       *)
(* truncation).                                                            *)
(***************************************************************************)
Num(h) == [given |-> TRUE,  numeric |-> TRUE,  halves |-> h]
Text   == [given |-> TRUE,  numeric |-> FALSE, halves |-> 0]
Absent == [given |-> FALSE, numeric |-> FALSE, halves |-> 0]

\* --sys-clk-freq: absent, 75e6, 50e6, 74999999.5, 0.5, "fast"
FreqArgs == {Absent, Num(2 * DefaultSysClkFreq), Num(100000000),
             Num(149999999), Num(1), Text}

SerialArgs   == {NoFlag, "serial", "serial_pmod0", "serial_pmod1",
                 "serial_pmod2"}
UartNameArgs == {NoFlag, "serial_pmod1"}
ProgTargets  == {"direct", "flash"}
ProgArgs     == {NoFlag} \cup ProgTargets \cup {"jtag"}

Argvs ==
  [build : BOOLEAN, load : BOOLEAN, sys_clk_freq : FreqArgs,
   serial : SerialArgs, prog_target : ProgArgs, uart_name : UartNameArgs,
   unknown : BOOLEAN]

NoSoC ==
  [made |-> FALSE, sys_clk_freq |-> 0, uart_name |-> Nothing,
   period |-> <<0, 1>>, build_name |-> Nothing]

NoLoad ==
  [called |-> FALSE, prog |-> Nothing, path |-> <<>>, file |-> Nothing]

\* parser.add_argument(...) and parser.parse_args(): each flag's value, or
\* its default.  No argument has a type or choices.  --uart-name is one of
\* the arguments soc_core_args(parser) adds.
parse_args(a) ==
  [build        |-> a.build,
   load         |-> a.load,
   sys_clk_freq |-> IF a.sys_clk_freq.given THEN a.sys_clk_freq
                    ELSE Num(2 * DefaultSysClkFreq),
   serial       |-> IF a.serial = NoFlag THEN "serial" ELSE a.serial,
   prog_target  |-> IF a.prog_target = NoFlag THEN "direct"
                    ELSE a.prog_target,
   uart_name    |-> IF a.uart_name = NoFlag THEN "serial" ELSE a.uart_name]

\* A faulty to_int: rounds to nearest.
to_int_round(halves) == (halves + 1) \div 2

\* int(x) of a non-negative float x = halves/2: truncation.
to_int(halves) == halves \div 2

\* soc_core_argdict(args): the arguments of SoCCore.__init__ found in args;
\* args.serial is not one of them.
soc_core_argdict(a) == [uart_name |-> a.uart_name]

\* BaseSoC.__init__(sys_clk_freq, **kwargs)
BaseSoC(sys_clk_freq, kwargs) ==
  [made         |-> TRUE,
   sys_clk_freq |-> sys_clk_freq,
   uart_name    |-> kwargs.uart_name,
   period       |-> period_constraint(sys_clk_freq),
   build_name   |-> "crosslink_nx_eval"]

\* os.path.join(builder.gateware_dir, soc.build_name + ".bit")
BitstreamPath(s) == <<"gateware", s.build_name, ".bit">>

\* platform.create_programmer(mode), of litex_boards/platforms: a programmer
\* for direct or flash; for another mode it either raises or returns one.
Raises == "<raises>"

create_programmer(mode) ==
  IF mode \in ProgTargets THEN {mode} ELSE {mode, Raises}

MainInit ==
  /\ argv \in Argvs
  /\ pc = "start"
  /\ args = Nothing
  /\ soc = NoSoC
  /\ builder = Nothing
  /\ bitfile \in {"absent", "stale"}
  /\ prog = Nothing
  /\ loaded = NoLoad
  /\ crg = Nothing /\ crg_evn = Nothing /\ locked = FALSE /\ rst_n = TRUE
  /\ IdleHistory

\* lines 104-112: argparse ends the run with a usage error for an option
\* it does not know.
ParseArgs ==
  /\ pc = "start"
  /\ IF argv.unknown
       THEN pc' = "usage_error" /\ UNCHANGED args
       ELSE pc' = "parsed" /\ args' = parse_args(argv)
  /\ UNCHANGED <<argv, soc, builder, bitfile, prog, loaded>>
  /\ UNCHANGED <<crg, crg_evn, locked, rst_n, hist_vars>>

\* line 114: soc = BaseSoC(int(float(args.sys_clk_freq)), ...).  float()
\* raises ValueError for a text that is no number; 1e9/sys_clk_freq in _CRG
\* raises ZeroDivisionError for 0.
MakeSoC ==
  /\ pc = "parsed"
  /\ IF ~args.sys_clk_freq.numeric
       THEN pc' = "ValueError" /\ UNCHANGED soc
       ELSE IF to_int(args.sys_clk_freq.halves) = 0
         THEN pc' = "ZeroDivisionError" /\ UNCHANGED soc
         ELSE /\ soc' = BaseSoC(to_int(args.sys_clk_freq.halves),
                                soc_core_argdict(args))
              /\ pc' = "soc"
  /\ UNCHANGED <<argv, args, builder, bitfile, prog, loaded>>
  /\ UNCHANGED <<crg, crg_evn, locked, rst_n, hist_vars>>

\* A faulty Build: the toolchain is run whatever --build says.
BuildAlways ==
  /\ pc = "soc"
  /\ builder' = "returned"
  /\ bitfile' = "fresh"
  /\ pc' = "built"
  /\ UNCHANGED <<argv, args, soc, prog, loaded>>
  /\ UNCHANGED <<crg, crg_evn, locked, rst_n, hist_vars>>

\* lines 115-117: builder.build(run=args.build) writes the bitstream when
\* run is true.
Build ==
  /\ pc = "soc"
  /\ builder' = "returned"
  /\ bitfile' = IF args.build THEN "fresh" ELSE bitfile
  /\ pc' = "built"
  /\ UNCHANGED <<argv, args, soc, prog, loaded>>
  /\ UNCHANGED <<crg, crg_evn, locked, rst_n, hist_vars>>

\* lines 119-121
Load ==
  /\ pc = "built"
  /\ IF ~args.load
       THEN pc' = "done" /\ UNCHANGED <<prog, loaded>>
       ELSE \E p \in create_programmer(args.prog_target) :
              IF p = Raises
                THEN pc' = "programmer_error" /\ UNCHANGED <<prog, loaded>>
                ELSE /\ prog' = p
                     /\ loaded' = [called |-> TRUE,
                                   prog   |-> p,
                                   path   |-> BitstreamPath(soc),
                                   file   |-> bitfile]
                     /\ pc' = "done"
  /\ UNCHANGED <<argv, args, soc, builder, bitfile>>
  /\ UNCHANGED <<crg, crg_evn, locked, rst_n, hist_vars>>

MainNext == ParseArgs \/ MakeSoC \/ Build \/ Load

SpecMain == MainInit /\ [][MainNext]_vars

(***************************************************************************)
(* Claims about the sequencer                                              *)
(***************************************************************************)

\* C1: in every reachable state, for any interleaving of por edges, lock
\* changes and gsrn changes, the sys reset is de-asserted only if the
\* power-on counter is 0 and the PLL is locked; so it is asserted in every
\* state where the lock is false, also after it was released once.
C1_SysResetGated == ~crg.sys_rst => (crg.por_count = 0 /\ locked)

C1_Witness == ~crg.sys_rst /\ crg.por_count = 0 /\ locked

\* C2: whatever the lock and gsrn inputs do, the sys reset stays asserted
\* until at least PorCountReset por clock edges have occurred since
\* power-up.
C2_MinResetEdges == ~crg.sys_rst => edges >= PorCountReset

C2_Witness == ~crg.sys_rst /\ edges = PorCountReset

\* C3, as stated: the counter's value never increases from one state to
\* the next, and once 0 it stays 0.
C3_NeverRearms ==
  [][/\ crg'.por_count <= crg.por_count
     /\ (crg.por_count = 0 => crg'.por_count = 0)]_vars

\* C3, amended: the counter changes only on a por clock edge.  On an edge
\* taken while the por reset is de-asserted it is decremented by one if
\* nonzero and kept if 0, so it neither wraps nor increases and 0 stays 0;
\* it increases only on an edge taken while the por reset is asserted,
\* which reloads it to PorCountReset.
C3_RearmsOnlyOnPorReset ==
  [][/\ (crg'.por_count # crg.por_count => PorClk)
     /\ (PorClk /\ ~crg.por_rst /\ crg.por_count # 0
           => crg'.por_count = crg.por_count - 1)
     /\ (~crg.por_rst
           => /\ crg'.por_count <= crg.por_count
              /\ (crg.por_count = 0 => crg'.por_count = 0))
     /\ (crg'.por_count > crg.por_count
           => crg.por_rst /\ crg'.por_count = PorCountReset)]_vars

C3_Witness == crg.por_count = 0 /\ ~crg.por_rst /\ edges = PorCountReset

\* C8: while gsrn is asserted the por domain is held in reset; a por clock
\* edge taken while the por reset is asserted reloads the counter to
\* PorCountReset, which makes por_done false and asserts the sys reset; and
\* once such an edge was taken in a gsrn assertion, the sys reset stays
\* asserted until PorCountReset por edges have occurred after the release.
C8_ExternalResetRearms ==
  /\ [](~rst_n => crg.por_rst)
  /\ [][PorClk /\ crg.por_rst
          => /\ crg'.por_count = PorCountReset
             /\ crg'.sys_rst]_vars
  /\ [](edge_in_reset /\ rst_n /\ since_release < PorCountReset
          => crg.sys_rst)

C8_Witness ==
  /\ edge_in_reset /\ rst_n /\ locked
  /\ edges = PorCountReset
  /\ since_release = PorCountReset - 1
  /\ crg.sys_rst

\* C9: the sequencers of the two files, powered up alike and driven by the
\* same edges and inputs, agree in every state on the counter, por_done,
\* the por reset and the sys reset, and registered the same period
\* constraint.
C9_VariantsAgree ==
  /\ crg.por_count = crg_evn.por_count
  /\ por_done(crg) = evn_por_done(crg_evn)
  /\ crg.por_rst = crg_evn.por_rst
  /\ crg.sys_rst = crg_evn.sys_rst
  /\ crg.period = crg_evn.period

C9_Witness ==
  /\ crg.por_count = 0 /\ crg_evn.por_count = 0
  /\ ~crg.sys_rst /\ ~crg_evn.sys_rst

\* C10: if from some point on gsrn stays de-asserted and the lock stays
\* true, then with the clocks running the counter eventually is 0 and the
\* sys reset eventually is de-asserted, for good; and if the lock is never
\* true the sys reset is asserted forever.
C10_ResetReleased ==
  /\ (<>[](rst_n /\ locked) => <>[](crg.por_count = 0 /\ ~crg.sys_rst))
  /\ ([](~locked) => [](crg.sys_rst))

C10_Witness ==
  /\ rst_n /\ locked /\ crg.por_count = 0
  /\ ~crg.sys_rst1 /\ ~crg.sys_rst /\ ~crg.por_rst

(***************************************************************************)
(* Claims about main()                                                     *)
(***************************************************************************)
\* The positions main() ends in: returned, or one of its errors.
Ended == {"done", "usage_error", "ValueError", "ZeroDivisionError",
          "programmer_error"}

\* The value --sys-clk-freq asks for, in half hertz.
Requested == IF argv.sys_clk_freq.given THEN argv.sys_clk_freq.halves
             ELSE 2 * DefaultSysClkFreq

\* 1e9 / F nanoseconds for F = halves/2 hertz, in lowest terms.
ExactPeriod(halves) == Fraction(2 * NanosPerSecond, halves)

\* C4, as stated: the period constraint registered on the sys clock is
\* 1e9 / F nanoseconds for the requested value F (75e6 with no flag).
C4_PeriodOfRequested ==
  soc.made => soc.period = ExactPeriod(Requested)

\* C4, amended: the period constraint registered is 1e9 / int(float(F))
\* nanoseconds, F truncated to whole hertz, which is 1e9 / F when F is a
\* whole number; with no flag, and with an explicit 75e6, the frequency
\* is 75000000 Hz and the constraint 1e9/75000000 = 40/3 ns.
C4_PeriodOfTruncated ==
  soc.made =>
    /\ soc.sys_clk_freq = Requested \div 2
    /\ soc.period = ExactPeriod(2 * (Requested \div 2))
    /\ (Requested % 2 = 0 => soc.period = ExactPeriod(Requested))
    /\ (~argv.sys_clk_freq.given \/ Requested = 2 * DefaultSysClkFreq
          => soc.sys_clk_freq = DefaultSysClkFreq /\ soc.period = <<40, 3>>)

C4_Witness ==
  soc.made /\ argv.sys_clk_freq.given /\ Requested % 2 = 1

\* C5: the pin set requested for the SoC's UART is the one --serial names,
\* and "serial" with no flag.
C5_SerialSelectsUart ==
  soc.made =>
    soc.uart_name = (IF argv.serial = NoFlag THEN "serial" ELSE argv.serial)

\* C6: a --prog-target outside {direct, flash} or a --sys-clk-freq that is
\* no number ends the run in the argument parser's error, before a SoC is
\* constructed, a builder invoked or a programmer created.
C6_MalformedRejectedByParser ==
  (\/ argv.prog_target \notin ({NoFlag} \cup ProgTargets)
   \/ (argv.sys_clk_freq.given /\ ~argv.sys_clk_freq.numeric))
  => /\ (pc \in Ended => pc = "usage_error")
     /\ ~soc.made /\ builder = Nothing /\ prog = Nothing

\* C7, as stated, read of the runs that return: the builder produced the
\* artifact exactly when --build was given, load_bitstream was invoked
\* exactly when --load was given, and it was invoked after the builder
\* step, on the programmer for --prog-target, against the artifact the
\* builder produced.
C7_LoadsBuiltArtifact ==
  /\ (pc = "done" => /\ (bitfile = "fresh") = argv.build
                     /\ loaded.called = argv.load)
  /\ (loaded.called =>
        /\ builder = "returned"
        /\ loaded.prog = (IF argv.prog_target = NoFlag THEN "direct"
                          ELSE argv.prog_target)
        /\ loaded.path = BitstreamPath(soc)
        /\ loaded.file = "fresh")

\* C7, amended: in every state of every run, the builder has produced the
\* artifact exactly when --build was given and the builder step has
\* returned; load_bitstream is invoked only when --load was given, after
\* the builder step has returned, on the programmer created for the
\* --prog-target value, against <gateware_dir>/<build_name>.bit, which this
\* run's builder produced exactly when --build was given too; and a run
\* that returns has invoked it exactly when --load was given.
C7_LoadsBitstreamPath ==
  /\ (bitfile = "fresh") = (argv.build /\ builder = "returned")
  /\ (pc = "done" => loaded.called = argv.load)
  /\ (loaded.called =>
        /\ argv.load
        /\ builder = "returned"
        /\ loaded.prog = prog
        /\ loaded.prog = (IF argv.prog_target = NoFlag THEN "direct"
                          ELSE argv.prog_target)
        /\ loaded.path = BitstreamPath(soc)
        /\ (loaded.file = "fresh") = argv.build)

C7_Witness ==
  pc = "done" /\ loaded.called /\ ~argv.build /\ loaded.file = "stale"

====
